---------------------------- MODULE Spec2Model ----------------------------
(***************************************************************************)
(* A model of the DevHub backend core: the bookmark ledger                 *)
(* (postController.toggleBookmark), credential handling                    *)
(* (authController.register / login) and the rate limiter mounted on       *)
(* /api/auth (server.js).                                                  *)
(*                                                                         *)
(* Every request handler is an async function: each `await` is a point     *)
(* where other requests may run, so a handler is modelled as one action    *)
(* per awaited database call, with the synchronous code that follows the   *)
(* call folded into the same action.                                       *)
(***************************************************************************)
EXTENDS Integers, Sequences, FiniteSets, TLC

(***************************************************************************)
(* Bounds of the model.                                                    *)
(***************************************************************************)
\* number of toggleBookmark requests issued in one run
MaxToggles == 3
\* number of register requests issued in one run
MaxRegisters == 2
\* number of login requests issued in one run
MaxLogins == 2
\* the clock advances in steps of windowMs / TicksPerWindow, MaxTicks times
TicksPerWindow == 2
MaxTicks == 2
\* requests a client still sends after its window is used up
MaxOver == 1
\* counted requests per window from the second address
MaxHitsOther == 1
\* counted requests per window that are neither register nor login
MaxOther == 1
\* a second connection is used within RaceZone requests of a window's start
\* or of its limit
RaceZone == 2
\* number of update / delete requests on posts and comments issued in one run
MaxEdits == 2
MaxViews == 2
\* number of tokens issued in one run
MaxIssued == 1
\* the clock is followed in half seconds for MaxEarly steps from the start,
\* and from a second before 7 days to MaxLate steps past 7 days
MaxEarly == 2
MaxLate == 2

UserIds == {"u1", "u2"}
PostIds == {"p1", "p2"}
ToggleIds == 1..MaxToggles
RegisterIds == 1..MaxRegisters
LoginIds == 1..MaxLogins
CommentIds == {"c1", "c2"}
EditIds == 1..MaxEdits
ViewIds == 1..MaxViews
ProfileIds == {1, 2}
\* the auth middleware has no await: one request is in it at a time
ProtectedIds == {1}

NoDoc == [exists |-> FALSE]

VARIABLES
    users,      \* User collection: UserIds -> document (bookmarks array, version key)
    posts,      \* Post collection: PostIds -> document (bookmarkedBy array, version key)
    treq,       \* toggleBookmark requests: ToggleIds -> request state
    regs,       \* register requests: RegisterIds -> request state
    logins,     \* login requests: LoginIds -> request state
    store,      \* the limiter's MemoryStore: key -> client (totalHits, resetTime)
    now,        \* Date.now(), in milliseconds
    lreq,       \* requests passing through the middleware stack: Conns -> state
    gwin,       \* per address, the window as the claims count it (history only)
    comments,   \* Comment collection: CommentIds -> document
    ereq,       \* update / delete requests on posts and comments: EditIds -> state
    wallet,     \* the tokens issued so far, each with the account and time of issue
    areq,       \* requests carrying a token to a route: ProtectedIds -> state
    vreq,       \* getPost and createPost requests: ViewIds -> state
    preq        \* getMe and updateProfile requests: ProfileIds -> state

vars == <<users, posts, treq, regs, logins, store, now, lreq, gwin, comments, ereq,
          wallet, areq, vreq, preq>>

\* what each group of handlers leaves alone
limiterVars == <<store, now, lreq, gwin>>
editVars == <<comments, ereq>>
tokenVars == <<wallet, areq>>
viewVars == <<vreq>>
profileVars == <<preq>>
notBookmark == <<regs, logins, limiterVars, editVars, tokenVars, viewVars, profileVars>>
notAuth == <<posts, treq, limiterVars, editVars, tokenVars, viewVars, profileVars>>
notLimiter == <<users, posts, treq, regs, logins, editVars, tokenVars, viewVars, profileVars>>
notEdit == <<users, treq, regs, logins, limiterVars, tokenVars, viewVars, profileVars>>
notToken == <<posts, treq, regs, logins, store, lreq, gwin, editVars, viewVars, profileVars>>
notView == <<users, treq, regs, logins, limiterVars, comments, ereq, tokenVars, profileVars>>
notProfile == <<posts, treq, regs, logins, limiterVars, editVars, tokenVars, viewVars>>

(***************************************************************************)
(* Mongoose array helpers used by toggleBookmark.                          *)
(***************************************************************************)
\* user.bookmarks.includes(post._id)
Includes(arr, x) == \E k \in 1..Len(arr) : arr[k] = x

\* arr.push(x): registers $push, appends one element
ArrayPush(arr, x) == Append(arr, x)

\* arr.pull(x): registers $pullAll, removes every occurrence
ArrayPull(arr, x) == SelectSeq(arr, LAMBDA e : e /= x)

\* the branch of lines 155-161: which array operation the request applies
PlannedOpAlwaysPush(isBookmarked) == "push"

PlannedOp(isBookmarked) == IF isBookmarked THEN "pull" ELSE "push"

\* Document.save() of a document whose only change is one array operation.
\* $push is sent with $inc of the version key and no version condition;
\* $pullAll is sent with the version the document was loaded at as a
\* condition, and save() throws VersionError when no document matches.
\* A document deleted since it was loaded matches neither update, and
\* save() throws as well (DocumentNotFoundError).
SaveOk(doc, op, loadedV) == doc.exists /\ (op = "push" \/ doc.v = loadedV)

SaveApply(doc, field, op, x) ==
    [doc EXCEPT ![field] = IF op = "push" THEN ArrayPush(@, x) ELSE ArrayPull(@, x),
                !.v = @ + 1]

(***************************************************************************)
(* The rate limiter (server.js 23-32) and the routes it is mounted over.   *)
(***************************************************************************)
windowMs == 15 * 60 * 1000
max == 100

IPs == {"ip1", "ip2"}
Conns == {1, 2}
NoAccount == "none"
TokenAccounts == {"a1", "a2"}

\* request URLs as path segments
UrlRegister == <<"api", "auth", "register">>
UrlLogin == <<"api", "auth", "login">>
UrlMe == <<"api", "auth", "me">>
UrlProfile == <<"api", "auth", "profile">>
UrlBookmark == <<"api", "posts", "p1", "bookmark">>
UrlComment == <<"api", "comments", "c1">>
CredentialUrls == {UrlRegister, UrlLogin}
TokenUrls == {UrlMe, UrlProfile, UrlBookmark, UrlComment}

\* app.use('/api/auth', authLimiter): the mount path of the limiter
LimiterMountWide == <<"api">>

LimiterMount == <<"api", "auth">>

\* express: a middleware mounted at a path runs for the URLs under it ...
MountMatches(mount, url) ==
    Len(url) >= Len(mount) /\ SubSeq(url, 1, Len(mount)) = mount

\* ... and sees req.url, hence req.path, with the mount path stripped
ReqPath(mount, url) == SubSeq(url, Len(mount) + 1, Len(url))

\* skip: (req) => req.path === '/api/auth/me'
Skip(path) == path = <<"api", "auth", "me">>

KeyGeneratorGlobal(req) == "ip1"

\* express-rate-limit's default keyGenerator: req.ip
KeyGenerator(req) == req.ip

NoClient == [totalHits |-> 0, resetTime |-> -1]

\* MemoryStore.increment(key): a client that is new, or whose resetTime has
\* passed, starts a window at the current time; then totalHits++
Increment(client, t) ==
    IF client = NoClient \/ client.resetTime <= t
    THEN [totalHits |-> 1, resetTime |-> t + windowMs]
    ELSE [client EXCEPT !.totalHits = @ + 1]

LimitedOffByOne(totalHits) == totalHits > max + 1

\* the middleware's test after the increment: totalHits > max answers 429
Limited(totalHits) == totalHits > max

RetryAfterElapsed(resetTime, t) ==
    LET seconds == ((t - resetTime) + 999) \div 1000
    IN IF seconds > 0 THEN seconds ELSE 0

\* the Retry-After header of the 429: Math.max(0, Math.ceil((resetTime - now) / 1000))
RetryAfter(resetTime, t) ==
    LET seconds == ((resetTime - t) + 999) \div 1000
    IN IF seconds > 0 THEN seconds ELSE 0

IdleConn ==
    [pc |-> "idle", url |-> UrlLogin, ip |-> "ip1", account |-> NoAccount,
     counted |-> FALSE, totalHits |-> 0, resetTime |-> -1, status |-> 0,
     retryAfter |-> 0, win |-> -1, nth |-> 0, pure |-> FALSE]

NoWindow == [start |-> -1, n |-> 0, other |-> 0, admitted |-> 0]

LimiterFresh ==
    /\ store = [k \in IPs |-> NoClient]
    /\ now = 0
    /\ lreq = [c \in Conns |-> IdleConn]
    /\ gwin = [k \in IPs |-> NoWindow]

\* The window of an address as the claims count it: opened by the first
\* request, replaced by a new one once windowMs have passed since its start.
WindowAt(w, t) == IF w.start = -1 \/ t >= w.start + windowMs
                  THEN [NoWindow EXCEPT !.start = t] ELSE w

Counts(w, url) ==
    [w EXCEPT !.n = @ + 1, !.other = IF url \in CredentialUrls THEN @ ELSE @ + 1]

\* A request arrives and runs through app.use('/api/auth', authLimiter) up to
\* the await of store.increment: a URL outside the mount path, or one the
\* skip predicate accepts, goes on to its router uncounted.
LimArrive(c, req) ==
    LET path == ReqPath(LimiterMount, req.url)
        key == KeyGenerator(req)
        client == Increment(store[key], now)
        w == Counts(WindowAt(gwin[req.ip], now), req.url)
        r == [IdleConn EXCEPT !.url = req.url, !.ip = req.ip, !.account = req.account]
    IN /\ lreq[c].pc = "idle"
       /\ IF MountMatches(LimiterMount, req.url) /\ ~Skip(path)
          THEN /\ store' = [store EXCEPT ![key] = client]
               /\ gwin' = [gwin EXCEPT ![req.ip] = w]
               /\ lreq' = [lreq EXCEPT ![c] =
                             [r EXCEPT !.pc = "counted", !.counted = TRUE,
                                       !.totalHits = client.totalHits,
                                       !.resetTime = client.resetTime,
                                       !.win = w.start, !.nth = w.n,
                                       !.pure = (w.other = 0)]]
          ELSE /\ lreq' = [lreq EXCEPT ![c] = [r EXCEPT !.pc = "responded", !.status = 200]]
               /\ UNCHANGED <<store, gwin>>
       /\ UNCHANGED <<now, notLimiter>>

\* After the increment: 429 with Retry-After when the limit is exceeded,
\* else next() and the route's own answer (200 here).
LimDecide(c) ==
    LET r == lreq[c]
        reject == Limited(r.totalHits)
        sameWindow == gwin[r.ip].start = r.win
    IN /\ r.pc = "counted"
       /\ lreq' = [lreq EXCEPT ![c] =
                     [r EXCEPT !.pc = "responded",
                               !.status = IF reject THEN 429 ELSE 200,
                               !.retryAfter = IF reject THEN RetryAfter(r.resetTime, now)
                                              ELSE 0]]
       /\ gwin' = [gwin EXCEPT ![r.ip].admitted =
                     IF ~reject /\ sameWindow THEN @ + 1 ELSE @]
       /\ UNCHANGED <<store, now, notLimiter>>

\* the response has been sent; the connection takes the next request
LimRelease(c) ==
    /\ lreq[c].pc = "responded"
    /\ lreq' = [lreq EXCEPT ![c] = IdleConn]
    /\ UNCHANGED <<store, now, gwin, notLimiter>>

\* Time passes. The continuation of an await on the in-memory store runs in
\* the same turn of the event loop, so no request is between its increment
\* and its answer when the clock moves on by a share of the window.
Tick ==
    /\ now < MaxTicks * (windowMs \div TicksPerWindow)
    /\ \A c \in Conns : lreq[c].pc /= "counted"
    /\ now' = now + (windowMs \div TicksPerWindow)
    /\ UNCHANGED <<store, lreq, gwin, notLimiter>>

\* the bounds on the traffic of one run
AuthUrls == {UrlRegister, UrlLogin, UrlMe, UrlProfile}

WithinTraffic(req) ==
    LET w == WindowAt(gwin[req.ip], now)
    IN req.url \in AuthUrls =>
          /\ w.n < max + MaxOver
          /\ req.ip /= "ip1" => w.n < MaxHitsOther
          /\ req.url \notin CredentialUrls => w.other < MaxOther

InRaceZone(c, req) ==
    LET w == WindowAt(gwin[req.ip], now)
    IN c = 1 \/ w.n < RaceZone \/ w.n >= max - RaceZone

Request(url, ip, account) == [url |-> url, ip |-> ip, account |-> account]

(***************************************************************************)
(* Accounts (models/User.js, authController.js).                           *)
(***************************************************************************)
NoNickname == ""
NoToken == [userId |-> "none"]
NoResponse == [status |-> 0, message |-> "", token |-> NoToken]

\* the pre-save hook of the User model: bcrypt.hash(password, salt)
Hash(password) == <<"bcrypt", password>>

\* userSchema.methods.comparePassword: bcrypt.compare(candidate, this.password)
ComparePassword(candidate, stored) == stored = Hash(candidate)

\* process.env.JWT_SECRET || 'fallback_secret', and a key of somebody else
JwtSecret == "fallback_secret"
OtherSecret == "other_secret"

\* expiresIn: '7d', in seconds
ExpiresIn == 7 * 24 * 60 * 60
OneHour == 60 * 60

\* the HMAC of a payload under a key
Hmac(key, userId, iat, exp) == <<key, userId, iat, exp>>

\* jwt.sign(payload, key, { expiresIn }) at time t (ms): iat is the time in
\* whole seconds, exp = iat + expiresIn, and the signature covers all three
JwtSign(userId, key, expiresIn, t) ==
    LET iat == t \div 1000
        exp == iat + expiresIn
    IN [userId |-> userId, iat |-> iat, exp |-> exp, sig |-> Hmac(key, userId, iat, exp)]

GenerateTokenOneHour(userId) == JwtSign(userId, JwtSecret, OneHour, now)

\* generateToken: jwt.sign({ userId }, secret, { expiresIn: '7d' })
GenerateToken(userId) == JwtSign(userId, JwtSecret, ExpiresIn, now)

\* what a client sends for a token: nothing, a string that is no JWT, or a JWT
NoBearer == [none |-> TRUE]
MalformedBearer == [raw |-> "invalid.token.here"]
IsJwt(bearer) == DOMAIN bearer = {"userId", "iat", "exp", "sig"}

JwtVerifyIgnoreExpiration(token, key, t) ==
    IF ~IsJwt(token)
    THEN [ok |-> FALSE, name |-> "JsonWebTokenError", message |-> "jwt malformed"]
    ELSE IF token.sig /= Hmac(key, token.userId, token.iat, token.exp)
    THEN [ok |-> FALSE, name |-> "JsonWebTokenError", message |-> "invalid signature"]
    ELSE [ok |-> TRUE, userId |-> token.userId]

\* jwt.verify(token, key) at time t (ms): the structure, then the signature,
\* then the expiry (clockTimestamp >= exp), each with the error it throws
JwtVerify(token, key, t) ==
    IF ~IsJwt(token)
    THEN [ok |-> FALSE, name |-> "JsonWebTokenError", message |-> "jwt malformed"]
    ELSE IF token.sig /= Hmac(key, token.userId, token.iat, token.exp)
    THEN [ok |-> FALSE, name |-> "JsonWebTokenError", message |-> "invalid signature"]
    ELSE IF t \div 1000 >= token.exp
    THEN [ok |-> FALSE, name |-> "TokenExpiredError", message |-> "jwt expired"]
    ELSE [ok |-> TRUE, userId |-> token.userId]

\* the failure of a verification by its kind, "" when it succeeds
Category(result) ==
    IF result.ok THEN ""
    ELSE IF result.name = "TokenExpiredError" THEN "Expired"
    ELSE IF result.message = "invalid signature" THEN "SignatureMismatch"
    ELSE "MalformedToken"

\* value.nickname || value.email.split('@')[0]
DefaultNickname(email, nickname) == IF nickname /= NoNickname THEN nickname ELSE email.local

\* the form in which the User model keeps and compares an email: letters
\* in lower case
Lower(str) == IF str = "A" THEN "a" ELSE IF str = "B" THEN "b" ELSE str
CastEmail(email) == [email EXCEPT !.local = Lower(@)]

\* the document User.create persists: bookmarks defaults to [], version key 0
NewUser(email, password, nickname) ==
    [exists |-> TRUE, email |-> CastEmail(email), password |-> Hash(password),
     nickname |-> DefaultNickname(email, nickname), bookmarks |-> <<>>, v |-> 0]

(***************************************************************************)
(* toggleBookmark (postController.js 144-173).                             *)
(***************************************************************************)
IdleToggle ==
    [pc |-> "idle", user |-> "u1", post |-> "p1", postV |-> -1, userV |-> -1,
     isBookmarked |-> FALSE, status |-> 0, beforeU |-> FALSE, beforeP |-> FALSE,
     afterU |-> FALSE, afterP |-> FALSE, overlap |-> FALSE, noUser |-> FALSE,
     shared |-> FALSE, wroteU |-> FALSE, wroteP |-> FALSE]

InFlight(r) == r.pc \in {"readPost", "readUser", "saveUser", "savePost"}

MemberU(u, p) == Includes(users[u].bookmarks, p)
MemberP(u, p) == Includes(posts[p].bookmarkedBy, u)

SamePairInFlight(u, p) ==
    {j \in ToggleIds : InFlight(treq[j]) /\ treq[j].user = u /\ treq[j].post = p}

\* The request has passed the auth middleware: req.user._id = u, req.params.id = p.
\* the requests in flight for another pair with the same account or the same post
SharingInFlight(u, p) ==
    {j \in ToggleIds : InFlight(treq[j]) /\ ((treq[j].user = u) /= (treq[j].post = p))}

ToggleStart(i, u, p) ==
    /\ treq[i].pc = "idle"
    /\ \A j \in ToggleIds : j < i => treq[j].pc /= "idle"
    /\ treq' = [j \in ToggleIds |->
                  IF j = i
                  THEN [IdleToggle EXCEPT !.pc = "readPost", !.user = u, !.post = p,
                            !.beforeU = MemberU(u, p), !.beforeP = MemberP(u, p),
                            !.overlap = SamePairInFlight(u, p) /= {},
                            !.shared = SharingInFlight(u, p) /= {}]
                  ELSE IF j \in SamePairInFlight(u, p)
                       THEN [treq[j] EXCEPT !.overlap = TRUE]
                  ELSE IF j \in SharingInFlight(u, p)
                       THEN [treq[j] EXCEPT !.shared = TRUE]
                       ELSE treq[j]]
    /\ UNCHANGED <<users, posts, notBookmark>>

\* line 146: const post = await Post.findById(req.params.id)
ToggleReadPost(i) ==
    /\ treq[i].pc = "readPost"
    /\ treq' = [treq EXCEPT ![i].pc = "readUser",
                            ![i].postV = IF posts[treq[i].post].exists
                                         THEN posts[treq[i].post].v ELSE -1]
    /\ UNCHANGED <<users, posts, notBookmark>>

Finish(r, status) ==
    [r EXCEPT !.pc = "done", !.status = status]

\* line 147: const user = await User.findById(req.user._id), then the
\* synchronous lines 149-163 up to the call of user.save()
ToggleReadUser(i) ==
    LET r == treq[i]
        u == users[r.user]
    IN /\ r.pc = "readUser"
       /\ treq' = [treq EXCEPT ![i] =
                     IF r.postV = -1 THEN Finish([r EXCEPT !.noUser = ~u.exists], 404)
                     ELSE IF ~u.exists THEN Finish([r EXCEPT !.noUser = TRUE], 500)
                     ELSE [r EXCEPT !.pc = "saveUser", !.userV = u.v,
                                    !.isBookmarked = Includes(u.bookmarks, r.post)]]
       /\ UNCHANGED <<users, posts, notBookmark>>

\* line 163: await user.save()
ToggleSaveUser(i) ==
    LET r == treq[i]
        op == PlannedOp(r.isBookmarked)
    IN /\ r.pc = "saveUser"
       /\ IF SaveOk(users[r.user], op, r.userV)
          THEN /\ users' = [users EXCEPT ![r.user] = SaveApply(@, "bookmarks", op, r.post)]
               /\ treq' = [treq EXCEPT ![i].pc = "savePost", ![i].wroteU = TRUE]
          ELSE /\ users' = users
               /\ treq' = [treq EXCEPT ![i] =
                             [Finish(r, 500) EXCEPT !.afterU = MemberU(r.user, r.post),
                                                    !.afterP = MemberP(r.user, r.post)]]
       /\ UNCHANGED <<posts, notBookmark>>

\* line 164: await post.save(), then the response of lines 166-169
ToggleSavePost(i) ==
    LET r == treq[i]
        op == PlannedOp(r.isBookmarked)
        ok == SaveOk(posts[r.post], op, r.postV)
        newPosts == IF ok
                    THEN [posts EXCEPT ![r.post] = SaveApply(@, "bookmarkedBy", op, r.user)]
                    ELSE posts
    IN /\ r.pc = "savePost"
       /\ posts' = newPosts
       /\ treq' = [treq EXCEPT ![i] =
                     [Finish(r, IF ok THEN 200 ELSE 500) EXCEPT
                        !.wroteP = ok,
                        !.afterU = MemberU(r.user, r.post),
                        !.afterP = Includes(newPosts[r.post].bookmarkedBy, r.user)]]
       /\ UNCHANGED <<users, notBookmark>>

\* the accounts the bookmark requests act for, as register left them
SeedEmail(u) == [local |-> u, domain |-> "x.com"]
FreshUser(u) == NewUser(SeedEmail(u), "longenough1", NoNickname)
\* a post as createPost leaves it: author = req.user._id, nobody has bookmarked it
FreshPost ==
    [exists |-> TRUE, author |-> "u1", title |-> "t0", views |-> 0,
     bookmarkedBy |-> <<>>, v |-> 0]

\* a comment as createComment leaves it
FreshComment(author, post) ==
    [exists |-> TRUE, author |-> author, post |-> post, content |-> "c0"]

NoBody == [title |-> "", content |-> "", extra |-> FALSE]
\* req.body of updateProfile: "" stands for a key the body does not carry
NoProfileBody == [nickname |-> "", password |-> "", extra |-> FALSE]
\* a response body without an account in it
NoProfileResponse == [message |-> ""]
IdleEdit ==
    [pc |-> "idle", op |-> "", actor |-> "u1", id |-> "p1", body |-> NoBody,
     status |-> 0, owner |-> "", loaded |-> FALSE]

IdleProtected ==
    [pc |-> "idle", route |-> "", bearer |-> NoBearer, at |-> 0, category |-> "",
     user |-> "", status |-> 0]

\* no token issued, no request with a token yet
NoTokenTraffic ==
    /\ wallet = {}
    /\ areq = [i \in ProtectedIds |-> IdleProtected]

\* a getPost or createPost request that has not arrived
IdleView ==
    [pc |-> "idle", op |-> "getPost", id |-> "p1", actor |-> "", body |-> NoBody,
     views |-> 0, status |-> 0]
NoViewTraffic == vreq = [i \in ViewIds |-> IdleView]

\* a getMe or updateProfile request that has not arrived
IdleProfile ==
    [pc |-> "idle", op |-> "getMe", user |-> "u1", body |-> NoProfileBody,
     status |-> 0, response |-> NoProfileResponse, before |-> FreshUser("u1")]
NoProfileTraffic == preq = [i \in ProfileIds |-> IdleProfile]

\* c1 is u1's comment, c2 is u2's, both on p1; no edit request yet
NoEditTraffic ==
    /\ comments = [c \in CommentIds |->
                     FreshComment(IF c = "c1" THEN "u1" ELSE "u2", "p1")]
    /\ ereq = [i \in EditIds |-> IdleEdit]

IdleRegister ==
    [pc |-> "idle", email |-> SeedEmail("u1"), password |-> "", nickname |-> NoNickname,
     taken |-> FALSE, response |-> NoResponse, sent |-> NoProfileResponse]
IdleLogin ==
    [pc |-> "idle", email |-> SeedEmail("u1"), password |-> "", found |-> NoDoc,
     cause |-> "", response |-> NoResponse, sent |-> NoProfileResponse]

NoAuthTraffic ==
    /\ regs = [i \in RegisterIds |-> IdleRegister]
    /\ logins = [i \in LoginIds |-> IdleLogin]
    /\ LimiterFresh

InitBookmark ==
    /\ users = [u \in UserIds |-> FreshUser(u)]
    /\ posts = [p \in PostIds |-> FreshPost]
    /\ treq = [i \in ToggleIds |-> IdleToggle]
    /\ NoAuthTraffic
    /\ NoEditTraffic
    /\ NoTokenTraffic
    /\ NoViewTraffic
    /\ NoProfileTraffic

\* A ledger left by earlier, completed toggles: the pairs of `linked` are
\* bookmarked on both sides, every array was built by pushes alone.
OrderedUsers == <<"u1", "u2">>
OrderedPosts == <<"p1", "p2">>

LedgerUser(u, linked) ==
    LET arr == SelectSeq(OrderedPosts, LAMBDA p : <<u, p>> \in linked)
    IN [FreshUser(u) EXCEPT !.bookmarks = arr, !.v = Len(arr)]

LedgerPost(p, linked) ==
    LET arr == SelectSeq(OrderedUsers, LAMBDA u : <<u, p>> \in linked)
    IN [FreshPost EXCEPT !.bookmarkedBy = arr, !.v = Len(arr)]

InitSeq ==
    \E linked \in SUBSET (UserIds \X PostIds) :
        /\ users = [u \in UserIds |-> LedgerUser(u, linked)]
        /\ posts = [p \in PostIds |-> LedgerPost(p, linked)]
        /\ treq = [i \in ToggleIds |-> IdleToggle]
        /\ NoAuthTraffic
        /\ NoEditTraffic
        /\ NoTokenTraffic
        /\ NoViewTraffic
        /\ NoProfileTraffic

NextBookmark ==
    \E i \in ToggleIds :
        \/ \E u \in UserIds, p \in PostIds : ToggleStart(i, u, p)
        \/ ToggleReadPost(i)
        \/ ToggleReadUser(i)
        \/ ToggleSaveUser(i)
        \/ ToggleSavePost(i)

SpecBookmark == InitBookmark /\ [][NextBookmark]_vars

\* The same handler with the requests issued one after the other: a request
\* starts only after every earlier one has responded.
ToggleStartSeq(i, u, p) ==
    /\ \A j \in ToggleIds : ~InFlight(treq[j])
    /\ ToggleStart(i, u, p)

NextSeq ==
    \E i \in ToggleIds :
        \/ \E u \in UserIds, p \in PostIds : ToggleStartSeq(i, u, p)
        \/ ToggleReadPost(i)
        \/ ToggleReadUser(i)
        \/ ToggleSaveUser(i)
        \/ ToggleSavePost(i)

SpecSeq == InitSeq /\ [][NextSeq]_vars

(***************************************************************************)
(* register (authController.js 12-45).                                     *)
(***************************************************************************)
InvalidEmail == [local |-> "invalid-email", domain |-> ""]
EmailInputs == {SeedEmail("a"), SeedEmail("b"), InvalidEmail}
\* req.body of the register requests: two valid bodies, one with an invalid
\* email, one with a password below the minimum length
RegisterBodies ==
    {[email |-> e, password |-> "longenough1"] : e \in EmailInputs}
        \cup {[email |-> SeedEmail("a"), password |-> "short"]}
\* req.body of the login requests: the registered password, another one, an
\* invalid email, an empty password
LoginBodies ==
    {[email |-> e, password |-> "longenough1"] : e \in EmailInputs}
        \cup {[email |-> SeedEmail("a"), password |-> pw] : pw \in {"wrongpass", ""}}

\* Joi.string().email(): a local part, an @ and a domain
EmailValid(email) == email.local /= "" /\ email.domain /= ""

\* schema.validate(req.body) of register: the first failing key's message, "" if none
RegisterValidate(email, password) ==
    IF ~EmailValid(email) THEN "\"email\" must be a valid email"
    ELSE IF password = "" THEN "\"password\" is not allowed to be empty"
    ELSE IF Len(password) < 6 THEN "\"password\" length must be at least 6 characters long"
    ELSE ""

\* User.findOne({ email }): the matching document, NoDoc (null) if none
EmailRegistered(email) ==
    \E u \in UserIds : users[u].exists /\ users[u].email = CastEmail(email)

IdOfEmail(email) ==
    CHOOSE u \in UserIds : users[u].exists /\ users[u].email = CastEmail(email)

FindByEmailExact(email) ==
    IF \E u \in UserIds : users[u].exists /\ users[u].email = email
    THEN users[CHOOSE u \in UserIds : users[u].exists /\ users[u].email = email]
    ELSE NoDoc

FindByEmail(email) ==
    IF EmailRegistered(email) THEN users[IdOfEmail(email)] ELSE NoDoc

\* the unique index on email: an insert of a taken email throws E11000
EmailIndexAccepts(email) == ~EmailRegistered(email)

FreeIds == {u \in UserIds : ~users[u].exists}
\* the _id the driver generates for an insert: the first unused one
NewId ==
    LET k == CHOOSE n \in 1..Len(OrderedUsers) :
                 /\ OrderedUsers[n] \in FreeIds
                 /\ \A m \in 1..(n - 1) : OrderedUsers[m] \notin FreeIds
    IN OrderedUsers[k]

Respond(status, message, token) == [status |-> status, message |-> message, token |-> token]

EmailTakenMessage == "Email already registered"
DuplicateKeyMessage == "E11000 duplicate key error collection: users index: email_1"

\* lines 14-23: validation, then the call of User.findOne
RegisterStart(i, email, password) ==
    /\ regs[i].pc = "idle"
    /\ \A j \in RegisterIds : j < i => regs[j].pc /= "idle"
    /\ LET msg == RegisterValidate(email, password)
           r == [IdleRegister EXCEPT !.email = email, !.password = password,
                                     !.taken = EmailRegistered(email)]
       IN regs' = [regs EXCEPT ![i] =
                     IF msg /= ""
                     THEN [r EXCEPT !.pc = "done", !.response = Respond(400, msg, NoToken)]
                     ELSE [r EXCEPT !.pc = "findOne"]]
    /\ UNCHANGED <<users, logins, notAuth>>

\* lines 23-24: const exists = await User.findOne(...); the 400 when it is found
RegisterFindOne(i) ==
    LET r == regs[i]
    IN /\ r.pc = "findOne"
       /\ regs' = [regs EXCEPT ![i] =
                     IF FindByEmail(r.email).exists
                     THEN [r EXCEPT !.pc = "done",
                                    !.response = Respond(400, EmailTakenMessage, NoToken)]
                     ELSE [r EXCEPT !.pc = "create"]]
       /\ UNCHANGED <<users, logins, notAuth>>

\* lines 35-40 and 65-70: the user object of the register and login responses
PublicUser(id, doc) ==
    [_id |-> id, email |-> doc.email, nickname |-> doc.nickname, bookmarks |-> doc.bookmarks]

\* lines 26-44: await User.create(...), the 201 with the token, and the
\* catch block that answers 500 with the message of whatever was thrown
RegisterCreate(i) ==
    LET r == regs[i]
    IN /\ r.pc = "create"
       /\ IF EmailIndexAccepts(r.email)
          THEN /\ users' = [users EXCEPT ![NewId] = NewUser(r.email, r.password, r.nickname)]
               /\ regs' = [regs EXCEPT ![i].pc = "done",
                                       ![i].response = Respond(201, "", GenerateToken(NewId)),
                                       ![i].sent = PublicUser(NewId, users'[NewId])]
          ELSE /\ users' = users
               /\ regs' = [regs EXCEPT ![i].pc = "done",
                                       ![i].response = Respond(500, DuplicateKeyMessage, NoToken)]
       /\ UNCHANGED <<logins, notAuth>>

(***************************************************************************)
(* login (authController.js 47-75).                                        *)
(***************************************************************************)
\* schema.validate(req.body) of login
LoginValidate(email, password) ==
    IF ~EmailValid(email) THEN "\"email\" must be a valid email"
    ELSE IF password = "" THEN "\"password\" is not allowed to be empty"
    ELSE ""

InvalidCredentialsMessage == "Invalid credentials"

LoginNoUserResponseLeaky == Respond(404, "User not found", NoToken)

\* line 57: the response when findOne returned null
LoginNoUserResponse == Respond(400, InvalidCredentialsMessage, NoToken)

\* line 60: the response when comparePassword returned false
LoginBadPasswordResponse == Respond(400, InvalidCredentialsMessage, NoToken)

\* What is wrong with a login request, judged on the stored accounts at the
\* time of the lookup (recorded for the claims; the handler never reads it).
LoginTruth(email, password) ==
    IF ~EmailRegistered(email) THEN "unknownEmail"
    ELSE IF users[IdOfEmail(email)].password /= Hash(password) THEN "wrongPassword"
    ELSE "ok"

\* lines 49-56: validation, then the call of User.findOne
LoginStart(i, email, password) ==
    /\ logins[i].pc = "idle"
    /\ \A j \in LoginIds : j < i => logins[j].pc /= "idle"
    /\ LET msg == LoginValidate(email, password)
           r == [IdleLogin EXCEPT !.email = email, !.password = password]
       IN logins' = [logins EXCEPT ![i] =
                       IF msg /= ""
                       THEN [r EXCEPT !.pc = "done", !.cause = "invalid",
                                      !.response = Respond(400, msg, NoToken)]
                       ELSE [r EXCEPT !.pc = "findOne"]]
    /\ UNCHANGED <<users, regs, notAuth>>

\* lines 56-59: const user = await User.findOne(...), the 400 when there is
\* none, then the call of user.comparePassword
LoginFindOne(i) ==
    LET r == logins[i]
        user == FindByEmail(r.email)
    IN /\ r.pc = "findOne"
       /\ logins' = [logins EXCEPT ![i] =
                       IF ~user.exists
                       THEN [r EXCEPT !.pc = "done",
                                      !.cause = LoginTruth(r.email, r.password),
                                      !.response = LoginNoUserResponse]
                       ELSE [r EXCEPT !.pc = "compare",
                                      !.cause = LoginTruth(r.email, r.password),
                                      !.found = [exists |-> TRUE, id |-> IdOfEmail(r.email),
                                                 password |-> user.password,
                                                 doc |-> user]]]
       /\ UNCHANGED <<users, regs, notAuth>>

\* lines 59-71: const ok = await user.comparePassword(...), the 400 when it
\* is false, else the 200 with the token
LoginCompare(i) ==
    LET r == logins[i]
    IN /\ r.pc = "compare"
       /\ logins' = [logins EXCEPT ![i] =
                       IF ~ComparePassword(r.password, r.found.password)
                       THEN [r EXCEPT !.pc = "done",
                                      !.response = LoginBadPasswordResponse]
                       ELSE [r EXCEPT !.pc = "done",
                                      !.response = Respond(200, "", GenerateToken(r.found.id)),
                                      !.sent = PublicUser(r.found.id, r.found.doc)]]
       /\ UNCHANGED <<users, regs, notAuth>>

InitAuth ==
    /\ users = [u \in UserIds |-> NoDoc]
    /\ posts = [p \in PostIds |-> FreshPost]
    /\ treq = [i \in ToggleIds |-> IdleToggle]
    /\ NoAuthTraffic
    /\ NoEditTraffic
    /\ NoTokenTraffic
    /\ NoViewTraffic
    /\ NoProfileTraffic

NextAuth ==
    \/ \E i \in RegisterIds :
          \/ \E b \in RegisterBodies : RegisterStart(i, b.email, b.password)
          \/ RegisterFindOne(i)
          \/ RegisterCreate(i)
    \/ \E i \in LoginIds :
          \/ \E b \in LoginBodies : LoginStart(i, b.email, b.password)
          \/ LoginFindOne(i)
          \/ LoginCompare(i)

SpecAuth == InitAuth /\ [][NextAuth]_vars

\* register alone, with passwords around the minimum length and addresses
\* that differ in the case of their letters only
PolicyBodies ==
    {[email |-> SeedEmail(l), password |-> "longenough1"] : l \in {"a", "A"}}
        \cup {[email |-> SeedEmail("a"), password |-> pw] : pw \in {"short", "seven77"}}
        \cup {[email |-> SeedEmail("B"), password |-> "eight888"]}

NextRegister ==
    \E i \in RegisterIds :
        \/ \E b \in PolicyBodies : RegisterStart(i, b.email, b.password)
        \/ RegisterFindOne(i)
        \/ RegisterCreate(i)

SpecRegister == InitAuth /\ [][NextRegister]_vars

(***************************************************************************)
(* The traffic the limiter is checked under.                               *)
(***************************************************************************)
\* one address sending register, login and update-profile requests over two
\* connections
LimiterRequests ==
    {Request(u, "ip1", NoAccount) : u \in CredentialUrls}
        \cup {Request(UrlProfile, "ip1", "a1")}

InitLimiter ==
    /\ users = [u \in UserIds |-> FreshUser(u)]
    /\ posts = [p \in PostIds |-> FreshPost]
    /\ treq = [i \in ToggleIds |-> IdleToggle]
    /\ NoAuthTraffic
    /\ NoEditTraffic
    /\ NoTokenTraffic
    /\ NoViewTraffic
    /\ NoProfileTraffic

NextLimiter ==
    \/ \E c \in Conns :
          \/ \E req \in LimiterRequests :
                WithinTraffic(req) /\ InRaceZone(c, req) /\ LimArrive(c, req)
          \/ LimDecide(c)
          \/ LimRelease(c)
    \/ Tick

SpecLimiter == InitLimiter /\ [][NextLimiter]_vars

\* every route from two addresses, with and without a token, one request at
\* a time
RouteRequests ==
    {Request(u, ip, NoAccount) : u \in CredentialUrls, ip \in IPs}
        \cup {Request(u, ip, a) : u \in TokenUrls, ip \in IPs, a \in TokenAccounts}

NextRoutes ==
    \/ \E req \in RouteRequests : WithinTraffic(req) /\ LimArrive(1, req)
    \/ LimDecide(1)
    \/ LimRelease(1)
    \/ Tick

SpecRoutes == InitLimiter /\ [][NextRoutes]_vars

(***************************************************************************)
(* updatePost, deletePost (postController.js 89-142) and updateComment,    *)
(* deleteComment (commentController.js 42-78).                             *)
(***************************************************************************)
\* req.body of an update: a new title or content, an empty one, and one
\* that carries a key outside the schema (author)
PostBodies ==
    {[NoBody EXCEPT !.title = "t1"], NoBody, [NoBody EXCEPT !.title = "t1", !.extra = TRUE]}
CommentBodies ==
    {[NoBody EXCEPT !.content = "c1"], NoBody}

\* schema.validate(req.body) of updatePost: Joi rejects an empty string and
\* a key the schema does not name
UpdatePostValidate(body) ==
    IF body.title = "" THEN "\"title\" is not allowed to be empty"
    ELSE IF body.extra THEN "\"author\" is not allowed"
    ELSE ""

\* schema.validate(req.body) of updateComment
UpdateCommentValidate(body) ==
    IF body.content = "" THEN "\"content\" is not allowed to be empty"
    ELSE IF body.extra THEN "\"author\" is not allowed"
    ELSE ""

NotAuthorizedNever(doc, actor) == FALSE

\* post.author.toString() !== req.user._id.toString(), and the same for a comment
NotAuthorized(doc, actor) == doc.author /= actor

EditDone(r, status) == [r EXCEPT !.pc = "done", !.status = status]

\* the author of the stored resource a request names, "" if there is none
OwnerOf(op, id) ==
    IF op \in {"updatePost", "deletePost"}
    THEN IF posts[id].exists THEN posts[id].author ELSE ""
    ELSE IF comments[id].exists THEN comments[id].author ELSE ""

\* The request has passed the auth middleware (req.user._id = actor) and
\* runs up to its first await. updateComment validates the body before it
\* looks the comment up (lines 44-50).
EditStart(i, op, actor, id, body) ==
    /\ ereq[i].pc = "idle"
    /\ \A j \in EditIds : j < i => ereq[j].pc /= "idle"
    /\ LET r == [IdleEdit EXCEPT !.op = op, !.actor = actor, !.id = id, !.body = body,
                                 !.owner = OwnerOf(op, id)]
       IN ereq' = [ereq EXCEPT ![i] =
                     IF op = "updateComment" /\ UpdateCommentValidate(body) /= ""
                     THEN EditDone(r, 400)
                     ELSE [r EXCEPT !.pc = "find"]]
    /\ UNCHANGED <<posts, comments, notEdit>>

\* updatePost lines 91-113: await Post.findById, 404, 403, validation, 400
UpdatePostFind(i) ==
    LET r == ereq[i]
        post == posts[r.id]
    IN /\ r.pc = "find" /\ r.op = "updatePost"
       /\ ereq' = [ereq EXCEPT ![i] =
                     IF ~post.exists THEN EditDone(r, 404)
                     ELSE IF NotAuthorized(post, r.actor)
                          THEN EditDone([r EXCEPT !.loaded = TRUE], 403)
                     ELSE IF UpdatePostValidate(r.body) /= ""
                          THEN EditDone([r EXCEPT !.loaded = TRUE], 400)
                     ELSE [r EXCEPT !.pc = "write", !.loaded = TRUE]]
       /\ UNCHANGED <<posts, comments, notEdit>>

\* updatePost lines 113-119: await Post.findByIdAndUpdate(id, req.body), then
\* res.json of the result (null when the post is gone)
UpdatePostWrite(i) ==
    LET r == ereq[i]
    IN /\ r.pc = "write" /\ r.op = "updatePost"
       /\ posts' = IF posts[r.id].exists
                   THEN [posts EXCEPT ![r.id].title = r.body.title]
                   ELSE posts
       /\ ereq' = [ereq EXCEPT ![i] = EditDone(r, 200)]
       /\ UNCHANGED <<comments, notEdit>>

\* deletePost lines 127-137: await Post.findById, 404, 403
DeletePostFind(i) ==
    LET r == ereq[i]
        post == posts[r.id]
    IN /\ r.pc = "find" /\ r.op = "deletePost"
       /\ ereq' = [ereq EXCEPT ![i] =
                     IF ~post.exists THEN EditDone(r, 404)
                     ELSE IF NotAuthorized(post, r.actor)
                          THEN EditDone([r EXCEPT !.loaded = TRUE], 403)
                     ELSE [r EXCEPT !.pc = "write", !.loaded = TRUE]]
       /\ UNCHANGED <<posts, comments, notEdit>>

\* deletePost lines 137-138: await Post.findByIdAndDelete(id)
DeletePostWrite(i) ==
    LET r == ereq[i]
    IN /\ r.pc = "write" /\ r.op = "deletePost"
       /\ posts' = [posts EXCEPT ![r.id].exists = FALSE]
       /\ ereq' = [ereq EXCEPT ![i] = EditDone(r, 200)]
       /\ UNCHANGED <<comments, notEdit>>

\* updateComment lines 50-57: await Comment.findById, 404, 403
UpdateCommentFind(i) ==
    LET r == ereq[i]
        comment == comments[r.id]
    IN /\ r.pc = "find" /\ r.op = "updateComment"
       /\ ereq' = [ereq EXCEPT ![i] =
                     IF ~comment.exists THEN EditDone(r, 404)
                     ELSE IF NotAuthorized(comment, r.actor)
                          THEN EditDone([r EXCEPT !.loaded = TRUE], 403)
                     ELSE [r EXCEPT !.pc = "write", !.loaded = TRUE]]
       /\ UNCHANGED <<posts, comments, notEdit>>

\* updateComment lines 56-62: comment.content = value.content; await
\* comment.save(), which throws when the document is gone (the catch
\* answers 500)
UpdateCommentWrite(i) ==
    LET r == ereq[i]
    IN /\ r.pc = "write" /\ r.op = "updateComment"
       /\ IF comments[r.id].exists
          THEN /\ comments' = [comments EXCEPT ![r.id].content = r.body.content]
               /\ ereq' = [ereq EXCEPT ![i] = EditDone(r, 200)]
          ELSE /\ comments' = comments
               /\ ereq' = [ereq EXCEPT ![i] = EditDone(r, 500)]
       /\ UNCHANGED <<posts, notEdit>>

\* deleteComment lines 67-73: await Comment.findById, 404, 403
DeleteCommentFind(i) ==
    LET r == ereq[i]
        comment == comments[r.id]
    IN /\ r.pc = "find" /\ r.op = "deleteComment"
       /\ ereq' = [ereq EXCEPT ![i] =
                     IF ~comment.exists THEN EditDone(r, 404)
                     ELSE IF NotAuthorized(comment, r.actor)
                          THEN EditDone([r EXCEPT !.loaded = TRUE], 403)
                     ELSE [r EXCEPT !.pc = "write", !.loaded = TRUE]]
       /\ UNCHANGED <<posts, comments, notEdit>>

\* deleteComment lines 73-74: await Comment.findByIdAndDelete(id)
DeleteCommentWrite(i) ==
    LET r == ereq[i]
    IN /\ r.pc = "write" /\ r.op = "deleteComment"
       /\ comments' = [comments EXCEPT ![r.id].exists = FALSE]
       /\ ereq' = [ereq EXCEPT ![i] = EditDone(r, 200)]
       /\ UNCHANGED <<posts, notEdit>>

\* p1 is u1's post, p2 is u2's
InitEdit ==
    /\ users = [u \in UserIds |-> FreshUser(u)]
    /\ posts = [p \in PostIds |->
                  [FreshPost EXCEPT !.author = IF p = "p1" THEN "u1" ELSE "u2"]]
    /\ treq = [i \in ToggleIds |-> IdleToggle]
    /\ NoAuthTraffic
    /\ NoEditTraffic
    /\ NoTokenTraffic
    /\ NoViewTraffic
    /\ NoProfileTraffic

NextEdit ==
    \E i \in EditIds :
        \/ \E actor \in UserIds, p \in PostIds, body \in PostBodies :
              EditStart(i, "updatePost", actor, p, body)
        \/ \E actor \in UserIds, p \in PostIds :
              EditStart(i, "deletePost", actor, p, NoBody)
        \/ \E actor \in UserIds, c \in CommentIds, body \in CommentBodies :
              EditStart(i, "updateComment", actor, c, body)
        \/ \E actor \in UserIds, c \in CommentIds :
              EditStart(i, "deleteComment", actor, c, NoBody)
        \/ UpdatePostFind(i)
        \/ UpdatePostWrite(i)
        \/ DeletePostFind(i)
        \/ DeletePostWrite(i)
        \/ UpdateCommentFind(i)
        \/ UpdateCommentWrite(i)
        \/ DeleteCommentFind(i)
        \/ DeleteCommentWrite(i)

SpecEdit == InitEdit /\ [][NextEdit]_vars

\* Bookmark toggles next to the ways a post or an account goes away. A post
\* goes away by deletePost. No handler removes an account: the document is
\* removed from the users collection directly, the case updateProfile
\* answers with 'User not found' (authController.js 96-98).
AccountRemoved(u) ==
    /\ users[u].exists
    /\ users' = [users EXCEPT ![u].exists = FALSE]
    /\ UNCHANGED <<posts, treq, notBookmark>>

\* the post the requests of this specification are about
DoomedPosts == {"p1"}

NextMissing ==
    \/ \E i \in ToggleIds :
          \/ \E u \in UserIds, p \in DoomedPosts : ToggleStart(i, u, p)
          \/ ToggleReadPost(i)
          \/ ToggleReadUser(i)
          \/ ToggleSaveUser(i)
          \/ ToggleSavePost(i)
    \/ \E i \in EditIds :
          \/ \E p \in DoomedPosts : EditStart(i, "deletePost", posts[p].author, p, NoBody)
          \/ DeletePostFind(i)
          \/ DeletePostWrite(i)
    \/ \E u \in UserIds : AccountRemoved(u)

SpecMissing == InitEdit /\ [][NextMissing]_vars

(***************************************************************************)
(* getPost (postController.js 42-59).                                      *)
(***************************************************************************)
\* req.params.id: the id of a stored post, a well-formed ObjectId no post
\* has, and a string that is no ObjectId
AbsentId == "507f1f77bcf86cd799439011"
MalformedId == "invalid-id"
GetIds == PostIds \cup {AbsentId, MalformedId}

\* Post.findById casts the id to an ObjectId and throws CastError when the
\* string is neither 12 bytes nor 24 hex characters
CastsToObjectId(id) == id /= MalformedId

\* Post.findById(id): the document, or null
FindPostById(id) == IF id \in PostIds /\ posts[id].exists THEN posts[id] ELSE NoDoc

ViewDone(r, status) == [r EXCEPT !.pc = "done", !.status = status]

\* the request arrives (the route has no auth) and calls Post.findById
GetPostStart(i, id) ==
    /\ vreq[i].pc = "idle"
    /\ \A j \in ViewIds : j < i => vreq[j].pc /= "idle"
    /\ vreq' = [vreq EXCEPT ![i] = [IdleView EXCEPT !.pc = "find", !.id = id]]
    /\ UNCHANGED <<posts, notView>>

\* lines 44-52: await Post.findById; CastError goes to the catch block
\* (500), null is answered 404, else post.views += 1 on the loaded document
GetPostFind(i) ==
    LET r == vreq[i]
        post == FindPostById(r.id)
    IN /\ r.pc = "find" /\ r.op = "getPost"
       /\ vreq' = [vreq EXCEPT ![i] =
                     IF ~CastsToObjectId(r.id) THEN ViewDone(r, 500)
                     ELSE IF ~post.exists THEN ViewDone(r, 404)
                     ELSE [r EXCEPT !.pc = "save", !.views = post.views + 1]]
       /\ UNCHANGED <<posts, notView>>

\* line 53: post.save() sends $set of the value computed on the loaded
\* document, with no condition on the version
GetPostSave(post, views) == [post EXCEPT !.views = views]

\* lines 53-58: await post.save(), res.json(post); save() throws when the
\* document has been deleted meanwhile (500)
GetPostWrite(i) ==
    LET r == vreq[i]
    IN /\ r.pc = "save" /\ r.op = "getPost"
       /\ IF posts[r.id].exists
          THEN /\ posts' = [posts EXCEPT ![r.id] = GetPostSave(@, r.views)]
               /\ vreq' = [vreq EXCEPT ![i] = ViewDone(r, 200)]
          ELSE /\ posts' = posts
               /\ vreq' = [vreq EXCEPT ![i] = ViewDone(r, 500)]
       /\ UNCHANGED notView

NextView ==
    \/ \E i \in ViewIds :
          \/ \E id \in GetIds : GetPostStart(i, id)
          \/ GetPostFind(i)
          \/ GetPostWrite(i)
    \/ \E i \in EditIds :
          \/ \E p \in DoomedPosts : EditStart(i, "deletePost", posts[p].author, p, NoBody)
          \/ DeletePostFind(i)
          \/ DeletePostWrite(i)

SpecView == InitEdit /\ [][NextView]_vars

(***************************************************************************)
(* createPost (postController.js 61-87).                                   *)
(***************************************************************************)
\* an id no post has been stored under
NoPost == [FreshPost EXCEPT !.exists = FALSE, !.author = ""]
UnusedIds == {p \in PostIds : posts[p] = NoPost}
NewPostId == CHOOSE p \in UnusedIds : TRUE

\* schema.validate(req.body) of createPost, lines 63-73: Joi rejects an empty
\* title and a key the schema does not name (author)
CreatePostValidate(body) ==
    IF body.title = "" THEN "\"title\" is not allowed to be empty"
    ELSE IF body.extra THEN "\"author\" is not allowed"
    ELSE ""

CreatedPostFirstAuthor(body, actor) == [FreshPost EXCEPT !.title = body.title]

\* lines 75-78: new Post({...req.body, author: req.user._id})
CreatedPost(body, actor) == [FreshPost EXCEPT !.author = actor, !.title = body.title]

\* The request has passed the auth middleware (req.user._id = actor):
\* validation and the 400, else the call of post.save()
CreatePostStart(i, actor, body) ==
    /\ vreq[i].pc = "idle"
    /\ \A j \in ViewIds : j < i => vreq[j].pc /= "idle"
    /\ \A j \in ViewIds : ~(vreq[j].op = "createPost" /\ vreq[j].pc = "save")
    /\ UnusedIds /= {}
    /\ LET r == [IdleView EXCEPT !.op = "createPost", !.actor = actor, !.body = body,
                                 !.id = NewPostId]
       IN vreq' = [vreq EXCEPT ![i] =
                     IF CreatePostValidate(body) /= "" THEN ViewDone(r, 400)
                     ELSE [r EXCEPT !.pc = "save"]]
    /\ UNCHANGED <<posts, notView>>

\* lines 80-83: await post.save(), populate, the 201
CreatePostSave(i) ==
    LET r == vreq[i]
    IN /\ r.pc = "save" /\ r.op = "createPost"
       /\ posts' = [posts EXCEPT ![r.id] = CreatedPost(r.body, r.actor)]
       /\ vreq' = [vreq EXCEPT ![i] = ViewDone(r, 201)]
       /\ UNCHANGED notView

\* p1 is u1's post; nothing is stored under p2 yet
InitAuthor ==
    /\ users = [u \in UserIds |-> FreshUser(u)]
    /\ posts = [p \in PostIds |-> IF p = "p1" THEN FreshPost ELSE NoPost]
    /\ treq = [i \in ToggleIds |-> IdleToggle]
    /\ NoAuthTraffic
    /\ NoEditTraffic
    /\ NoTokenTraffic
    /\ NoViewTraffic
    /\ NoProfileTraffic

\* a create body with a title and nothing else, and one that names an author
CreateBodies == {[NoBody EXCEPT !.title = "t1"], [NoBody EXCEPT !.title = "t1", !.extra = TRUE]}

\* createPost next to the handlers that write an existing post
NextAuthor ==
    \/ \E i \in ViewIds :
          \/ \E actor \in UserIds, body \in CreateBodies : CreatePostStart(i, actor, body)
          \/ CreatePostSave(i)
          \/ \E id \in PostIds : GetPostStart(i, id)
          \/ GetPostFind(i)
          \/ GetPostWrite(i)
    \/ \E actor \in UserIds, p \in PostIds, body \in PostBodies :
          EditStart(1, "updatePost", actor, p, body)
    \/ UpdatePostFind(1)
    \/ UpdatePostWrite(1)
    \/ \E u \in UserIds, p \in PostIds : ToggleStart(1, u, p)
    \/ ToggleReadPost(1)
    \/ ToggleReadUser(1)
    \/ ToggleSaveUser(1)
    \/ ToggleSavePost(1)

SpecAuthor == InitAuthor /\ [][NextAuthor]_vars

(***************************************************************************)
(* getMe and updateProfile (authController.js 77-110).                     *)
(***************************************************************************)
\* req.body of updateProfile: a nickname, a password, both, a nickname below
\* the minimum length, and a body with a key outside the schema (email)
ProfileBodies ==
    {[NoProfileBody EXCEPT !.nickname = "n1"],
     [NoProfileBody EXCEPT !.password = "newpass99"],
     [NoProfileBody EXCEPT !.nickname = "n1", !.password = "newpass99"],
     [NoProfileBody EXCEPT !.nickname = "x"],
     [NoProfileBody EXCEPT !.nickname = "n1", !.extra = TRUE]}

\* schema.validate(req.body) of updateProfile, lines 88-93
UpdateProfileValidate(body) ==
    IF body.nickname /= "" /\ Len(body.nickname) < 2
    THEN "\"nickname\" length must be at least 2 characters long"
    ELSE IF body.password /= "" /\ Len(body.password) < 6
    THEN "\"password\" length must be at least 6 characters long"
    ELSE IF body.extra THEN "\"email\" is not allowed"
    ELSE ""

SelectAll(doc, excluded) == doc

\* line 79: .select('-password'), the document without the excluded paths
SelectWithout(doc, excluded) == [f \in DOMAIN doc \ excluded |-> doc[f]]

\* lines 102-106: the body of the updateProfile response
ProfileUser(id, doc) == [_id |-> id, email |-> doc.email, nickname |-> doc.nickname]

UpdateProfileApplyPlain(doc, value) ==
    [doc EXCEPT !.nickname = IF value.nickname /= "" THEN value.nickname ELSE @,
                !.password = IF value.password /= "" THEN <<"plain", value.password>> ELSE @]

UpdateProfileApplyEmail(doc, value) ==
    [doc EXCEPT !.nickname = IF value.nickname /= "" THEN value.nickname ELSE @,
                !.password = IF value.password /= "" THEN Hash(value.password) ELSE @,
                !.email = SeedEmail(value.nickname)]

\* lines 98-100: the two assignments and user.save(), whose pre-save hook
\* hashes a modified password
UpdateProfileApply(doc, value) ==
    [doc EXCEPT !.nickname = IF value.nickname /= "" THEN value.nickname ELSE @,
                !.password = IF value.password /= "" THEN Hash(value.password) ELSE @]

ProfileDone(r, status, response) ==
    [r EXCEPT !.pc = "done", !.status = status, !.response = response]

\* The request has passed the auth middleware with a token of account u
\* (req.user._id = u). updateProfile validates the body first.
ProfileStart(i, op, u, body) ==
    /\ preq[i].pc = "idle"
    /\ users[u] /= NoDoc
    /\ LET r == [IdleProfile EXCEPT !.op = op, !.user = u, !.body = body]
       IN preq' = [preq EXCEPT ![i] =
                     IF op = "updateProfile" /\ UpdateProfileValidate(body) /= ""
                     THEN ProfileDone(r, 400, NoProfileResponse)
                     ELSE [r EXCEPT !.pc = "find"]]
    /\ UNCHANGED <<users, notProfile>>

\* getMe lines 79-80: await User.findById(...).select('-password'),
\* res.json(user), which sends null when there is no such account
GetMe(i) ==
    LET r == preq[i]
        user == users[r.user]
    IN /\ r.pc = "find" /\ r.op = "getMe"
       /\ preq' = [preq EXCEPT ![i] =
                     ProfileDone(r, 200, IF user.exists
                                         THEN SelectWithout(user, {"password"})
                                         ELSE NoProfileResponse)]
       /\ UNCHANGED <<users, notProfile>>

\* updateProfile lines 95-96: await User.findById, the 404
UpdateProfileFind(i) ==
    LET r == preq[i]
        user == users[r.user]
    IN /\ r.pc = "find" /\ r.op = "updateProfile"
       /\ preq' = [preq EXCEPT ![i] =
                     IF ~user.exists THEN ProfileDone(r, 404, NoProfileResponse)
                     ELSE [r EXCEPT !.pc = "save", !.before = user]]
       /\ UNCHANGED <<users, notProfile>>

\* updateProfile lines 98-109: await user.save() writes the modified paths,
\* then the response; save() throws when the account is gone (500)
UpdateProfileSave(i) ==
    LET r == preq[i]
    IN /\ r.pc = "save" /\ r.op = "updateProfile"
       /\ IF users[r.user].exists
          THEN /\ users' = [users EXCEPT ![r.user] = UpdateProfileApply(@, r.body)]
               /\ preq' = [preq EXCEPT ![i] =
                             ProfileDone(r, 200,
                                 ProfileUser(r.user, UpdateProfileApply(r.before, r.body)))]
          ELSE /\ users' = users
               /\ preq' = [preq EXCEPT ![i] = ProfileDone(r, 500, NoProfileResponse)]
       /\ UNCHANGED notProfile

\* the response has been sent; the next request may come
ProfileRelease(i) ==
    /\ preq[i].pc = "done"
    /\ preq' = [preq EXCEPT ![i] = IdleProfile]
    /\ UNCHANGED <<users, notProfile>>

ProfileRequests(i) ==
    \/ \E u \in UserIds : ProfileStart(i, "getMe", u, NoProfileBody)
    \/ \E u \in UserIds, body \in ProfileBodies : ProfileStart(i, "updateProfile", u, body)
    \/ GetMe(i)
    \/ UpdateProfileFind(i)
    \/ UpdateProfileSave(i)
    \/ ProfileRelease(i)

\* the register and login bodies the profile requests run next to
AccountBodies ==
    {[email |-> SeedEmail(l), password |-> pw] : l \in {"a", "u1"}, pw \in {"longenough1"}}
        \cup {[email |-> SeedEmail("a"), password |-> "newpass99"]}

\* u1 is registered; nothing is stored under u2 yet
InitProfile ==
    /\ users = [u \in UserIds |-> IF u = "u1" THEN FreshUser(u) ELSE NoDoc]
    /\ posts = [p \in PostIds |-> FreshPost]
    /\ treq = [i \in ToggleIds |-> IdleToggle]
    /\ NoAuthTraffic
    /\ NoEditTraffic
    /\ NoTokenTraffic
    /\ NoViewTraffic
    /\ NoProfileTraffic

\* accounts are registered, logged into, read and updated
NextProfile ==
    \/ \E b \in AccountBodies : RegisterStart(1, b.email, b.password)
    \/ RegisterFindOne(1)
    \/ RegisterCreate(1)
    \/ \E b \in AccountBodies : LoginStart(1, b.email, b.password)
    \/ LoginFindOne(1)
    \/ LoginCompare(1)
    \/ \E i \in ProfileIds : ProfileRequests(i)

SpecProfile == InitProfile /\ [][NextProfile]_vars

\* the accounts exist, are updated, and are removed under the requests
NextProfileGone ==
    \/ \E i \in ProfileIds : ProfileRequests(i)
    \/ \E u \in UserIds : AccountRemoved(u)

SpecProfileGone == InitEdit /\ [][NextProfileGone]_vars

(***************************************************************************)
(* The auth middleware in front of the protected routes (routes/auth.js,   *)
(* routes/posts.js, routes/comments.js; middleware/auth.js).               *)
(***************************************************************************)
\* the routes declared with `auth` before their handler, and those without
ProtectedRoutes ==
    {"createPost", "updatePost", "deletePost", "toggleBookmark",
     "createComment", "updateComment", "deleteComment", "getMe", "updateProfile"}
PublicRoutes == {"getPosts", "getPopularTags", "getPost", "getComments", "register", "login"}

UsesAuthButProfile(route) == route \in ProtectedRoutes \ {"updateProfile"}

UsesAuth(route) == route \in ProtectedRoutes

\* what verification makes of the bearer a request carries
BearerCategory(bearer, t) ==
    IF bearer = NoBearer THEN "Missing" ELSE Category(JwtVerify(bearer, JwtSecret, t))

\* middleware/auth.js: the token is verified without any lookup; every
\* failure is answered 401, success sets req.user to the token's subject
AuthMiddleware(bearer, t) ==
    LET category == BearerCategory(bearer, t)
    IN IF category /= ""
       THEN [pass |-> FALSE, status |-> 401, user |-> ""]
       ELSE [pass |-> TRUE, status |-> 0, user |-> bearer.userId]

\* login answered 200: const token = generateToken(user._id); the client keeps it
TokenIssue(u) ==
    /\ users[u].exists
    /\ Cardinality(wallet) < MaxIssued
    /\ wallet' = wallet \cup {[owner |-> u, at |-> now, token |-> GenerateToken(u)]}
    /\ UNCHANGED <<users, now, areq, notToken>>

\* what clients present: no token, a string that is no JWT, a token as
\* issued, the same payload signed with another key, and an issued token
\* with its subject or its expiry rewritten
Forged(w) == JwtSign(w.owner, OtherSecret, ExpiresIn, w.at)
Resubjected(w) == [w.token EXCEPT !.userId = IF @ = "u1" THEN "u2" ELSE "u1"]
Prolonged(w) == [w.token EXCEPT !.exp = @ + ExpiresIn]
Bearers ==
    {NoBearer, MalformedBearer}
        \cup {w.token : w \in wallet} \cup {Forged(w) : w \in wallet}
        \cup {Resubjected(w) : w \in wallet} \cup {Prolonged(w) : w \in wallet}

\* A request arrives at a route: the auth middleware, when the route has
\* it, answers 401 or hands over to the handler.
ProtectedArrive(i, route, bearer) ==
    /\ areq[i].pc = "idle"
    /\ LET m == AuthMiddleware(bearer, now)
           r == [IdleProtected EXCEPT !.route = route, !.bearer = bearer, !.at = now,
                                      !.category = BearerCategory(bearer, now)]
       IN areq' = [areq EXCEPT ![i] =
                     IF UsesAuth(route) /\ ~m.pass
                     THEN [r EXCEPT !.pc = "done", !.status = m.status]
                     ELSE [r EXCEPT !.pc = "handler",
                                    !.user = IF UsesAuth(route) THEN m.user ELSE ""]]
    /\ UNCHANGED <<users, now, wallet, notToken>>

\* The handler runs. updateProfile (authController.js 86-110) stores the
\* nickname of the body for req.user, 404 when the account is gone and 500
\* when there is no req.user; the other handlers are modelled with their
\* own requests and only answer here.
ProtectedHandle(i) ==
    LET r == areq[i]
    IN /\ r.pc = "handler"
       /\ IF r.route /= "updateProfile"
          THEN /\ users' = users
               /\ areq' = [areq EXCEPT ![i].pc = "done", ![i].status = 200]
          ELSE IF r.user = ""
          THEN /\ users' = users
               /\ areq' = [areq EXCEPT ![i].pc = "done", ![i].status = 500]
          ELSE IF ~users[r.user].exists
          THEN /\ users' = users
               /\ areq' = [areq EXCEPT ![i].pc = "done", ![i].status = 404]
          ELSE /\ users' = [users EXCEPT ![r.user].nickname = "n1"]
               /\ areq' = [areq EXCEPT ![i].pc = "done", ![i].status = 200]
       /\ UNCHANGED <<now, wallet, notToken>>

\* the response has been sent; the next request may come
ProtectedRelease(i) ==
    /\ areq[i].pc = "done"
    /\ areq' = [areq EXCEPT ![i] = IdleProtected]
    /\ UNCHANGED <<users, now, wallet, notToken>>

\* Date.now() moves on: by half a second, or by a second less than 7 days
HalfSecond == 500
ClockSteps == {HalfSecond, ExpiresIn * 1000 - 1000}
TokenClock(d) ==
    /\ now + d <= ExpiresIn * 1000 + MaxLate * HalfSecond
    /\ d = HalfSecond => (now < MaxEarly * HalfSecond \/ now >= ExpiresIn * 1000 - 1000)
    /\ now' = now + d
    /\ UNCHANGED <<users, wallet, areq, notToken>>

InitToken ==
    /\ users = [u \in UserIds |-> FreshUser(u)]
    /\ posts = [p \in PostIds |-> FreshPost]
    /\ treq = [i \in ToggleIds |-> IdleToggle]
    /\ NoAuthTraffic
    /\ NoEditTraffic
    /\ NoTokenTraffic
    /\ NoViewTraffic
    /\ NoProfileTraffic

NextToken ==
    \/ \E u \in UserIds : TokenIssue(u)
    \/ \E i \in ProtectedIds :
          \/ \E route \in ProtectedRoutes \cup {"getPost"}, bearer \in Bearers :
                ProtectedArrive(i, route, bearer)
          \/ ProtectedHandle(i)
          \/ ProtectedRelease(i)
    \/ \E d \in ClockSteps : TokenClock(d)

SpecToken == InitToken /\ [][NextToken]_vars

(***************************************************************************)
(* Claims about the bookmark ledger.                                       *)
(***************************************************************************)
SamePair(r, s) == r.user = s.user /\ r.post = s.post

\* C1: two concurrent toggleBookmark(U,P) requests from a fresh state that
\* both complete leave P out of U.bookmarks and U out of P.bookmarkedBy.
C1_ConcurrentTogglesCancel ==
    \A i, j \in ToggleIds :
        ( /\ i < j
          /\ treq[i].pc = "done" /\ treq[j].pc = "done"
          /\ treq[i].status = 200 /\ treq[j].status = 200
          /\ SamePair(treq[i], treq[j])
          /\ treq[i].overlap /\ treq[j].overlap
          /\ ~treq[i].beforeU /\ ~treq[i].beforeP
          /\ \A k \in ToggleIds \ {i, j} :
                treq[k].pc = "idle" \/ ~SamePair(treq[k], treq[i]) )
        => ( /\ ~MemberU(treq[i].user, treq[i].post)
             /\ ~MemberP(treq[i].user, treq[i].post) )

\* C2: whenever no toggleBookmark request is in flight for the pair (U,P),
\* P is in U.bookmarks iff U is in P.bookmarkedBy.
C2_BidirectionalAtQuiescence ==
    \A u \in UserIds, p \in PostIds :
        SamePairInFlight(u, p) = {} => (MemberU(u, p) <=> MemberP(u, p))

\* C3: two toggleBookmark(U,P) calls executed one after the other return
\* the pair to its original membership on both sides, and after each call
\* the two sides agree.
C3_SequentialTogglesRestore ==
    /\ \A i \in ToggleIds :
          treq[i].pc = "done" =>
              treq[i].status = 200 /\ (treq[i].afterU <=> treq[i].afterP)
    /\ \A i, j \in ToggleIds :
          ( /\ j = i + 1
            /\ treq[i].pc = "done" /\ treq[j].pc = "done"
            /\ SamePair(treq[i], treq[j]) )
          => ( /\ treq[j].afterU = treq[i].beforeU
               /\ treq[j].afterP = treq[i].beforeP )

\* an initially bookmarked pair toggled twice in a row
C3_Witness ==
    \E i, j \in ToggleIds :
        /\ j = i + 1
        /\ treq[i].pc = "done" /\ treq[j].pc = "done"
        /\ SamePair(treq[i], treq[j])
        /\ treq[i].beforeU /\ treq[i].beforeP
        /\ ~treq[i].afterU /\ treq[j].afterU

(***************************************************************************)
(* Claims about register and login.                                        *)
(***************************************************************************)
ValidRegistersOf(email) ==
    {i \in RegisterIds : /\ regs[i].pc /= "idle"
                         /\ regs[i].email = email
                         /\ RegisterValidate(regs[i].email, regs[i].password) = ""}

\* C4: of N >= 2 register requests with the same valid email and valid
\* passwords, exactly one answers 201 and every other one answers 400
\* 'Email already registered'.
C4_ExactlyOneRegisterSucceeds ==
    \A e \in EmailInputs :
        ( /\ Cardinality(ValidRegistersOf(e)) >= 2
          /\ \A i \in ValidRegistersOf(e) : regs[i].pc = "done" )
        => ( /\ Cardinality({i \in ValidRegistersOf(e) : regs[i].response.status = 201}) = 1
             /\ \A i \in ValidRegistersOf(e) :
                   \/ regs[i].response.status = 201
                   \/ regs[i].response = Respond(400, EmailTakenMessage, NoToken) )

LoginStep == \E i \in LoginIds : logins'[i] /= logins[i]

\* C10: a login with an unregistered email and a login with a registered
\* email and a wrong password get the same response, 400 'Invalid
\* credentials' without a token, and no login step changes a stored account.
C10_LoginFailuresIndistinguishable ==
    /\ [](\A i \in LoginIds :
            (logins[i].pc = "done" /\ logins[i].cause \in {"unknownEmail", "wrongPassword"})
            => logins[i].response = Respond(400, "Invalid credentials", NoToken))
    /\ [][LoginStep => users' = users]_vars

\* both failures have been answered in one run
C10_Witness ==
    \E i, j \in LoginIds :
        /\ logins[i].pc = "done" /\ logins[i].cause = "unknownEmail"
        /\ logins[j].pc = "done" /\ logins[j].cause = "wrongPassword"
        /\ logins[i].response = logins[j].response

(***************************************************************************)
(* Claims about the rate limiter.                                          *)
(***************************************************************************)
Answered(r) == r.pc = "responded"
Arrived(r) == r.pc /= "idle"

C6_AdmittedWithinThreshold ==
    /\ \A ip \in IPs : gwin[ip].admitted <= max
    /\ \A c, d \in Conns :
          ( /\ c /= d
            /\ Arrived(lreq[c]) /\ lreq[c].counted
            /\ Arrived(lreq[d]) /\ lreq[d].counted
            /\ lreq[c].ip = lreq[d].ip /\ lreq[c].win = lreq[d].win )
          => lreq[c].totalHits /= lreq[d].totalHits
    /\ \A c \in Conns :
          (Answered(lreq[c]) /\ lreq[c].counted /\ lreq[c].status = 200)
          => lreq[c].nth <= max

\* one slot was left and two requests are in flight for it
C6_Witness ==
    /\ lreq[1].pc = "counted" /\ lreq[2].pc = "counted"
    /\ lreq[1].ip = lreq[2].ip /\ lreq[1].win = lreq[2].win
    /\ {lreq[1].totalHits, lreq[2].totalHits} = {max, max + 1}
    /\ gwin[lreq[1].ip].admitted = max - 1

\* C7: a GET /api/auth/me request is never counted and never answered 429.
C7_MeExempt ==
    \A c \in Conns :
        (Arrived(lreq[c]) /\ lreq[c].url = UrlMe)
        => ~lreq[c].counted /\ lreq[c].status /= 429

\* C8: a request to update-profile or to a post, comment or bookmark
\* endpoint is never counted and never answered 429.
C8_OnlyRegisterLoginGated ==
    \A c \in Conns :
        (Arrived(lreq[c]) /\ lreq[c].url \in {UrlProfile, UrlBookmark, UrlComment})
        => ~lreq[c].counted /\ lreq[c].status /= 429

\* C8 as amended: the gate covers the routes under /api/auth, update-profile
\* included, and no other: a post, comment or bookmark request is never
\* counted and never answered 429.
C8_GateCoversAuthRoutesOnly ==
    \A c \in Conns :
        Arrived(lreq[c])
        => ( /\ lreq[c].url \in {UrlBookmark, UrlComment} =>
                    ~lreq[c].counted /\ lreq[c].status /= 429
             /\ lreq[c].url \in {UrlRegister, UrlLogin, UrlProfile} => lreq[c].counted )

\* a bookmark request passes uncounted from an address that is over its limit
C8_Witness ==
    \E c \in Conns :
        /\ Answered(lreq[c]) /\ lreq[c].url = UrlBookmark
        /\ lreq[c].status = 200 /\ ~lreq[c].counted
        /\ store[lreq[c].ip].totalHits > max
        /\ store[lreq[c].ip].resetTime > now

\* the identity key as the claim has it: the account of a token, else the address
ClaimedKey(r) == IF r.account /= NoAccount THEN <<"account", r.account>> ELSE <<"ip", r.ip>>

Identities == [ip : IPs, account : TokenAccounts \cup {NoAccount}]

CountedStep(c) == lreq[c].pc = "idle" /\ lreq'[c].pc = "counted"

\* C9: a request counted for one identity key (account if it carries a
\* token, address otherwise) never changes the count of a different
\* identity key.
C9_PerIdentityKey ==
    [][\A c \in Conns :
          CountedStep(c) =>
              \A id \in Identities :
                  ClaimedKey(id) /= ClaimedKey(lreq'[c])
                  => store'[KeyGenerator(id)] = store[KeyGenerator(id)]]_vars

\* C9 as amended: windows are kept per address, with or without a token: a
\* request counted for one address never changes the count of another
\* address, and a 429 is answered only to an address whose own requests of
\* the window exceed max.
C9_PerAddressWindows ==
    /\ [][\A c \in Conns :
             CountedStep(c) =>
                 \A ip \in IPs \ {lreq'[c].ip} : store'[ip] = store[ip]]_vars
    /\ [](\A c \in Conns : lreq[c].status = 429 => lreq[c].nth > max)

\* the second address is admitted while the first is over its limit
C9_Witness ==
    \E c \in Conns :
        /\ Answered(lreq[c]) /\ lreq[c].ip = "ip2"
        /\ lreq[c].counted /\ lreq[c].status = 200
        /\ store["ip1"].totalHits > max /\ store["ip1"].resetTime > now

(***************************************************************************)
(* Claims about the ownership guard.                                       *)
(***************************************************************************)
NonAuthor(r) == r.owner /= "" /\ r.owner /= r.actor

PostOps == {"updatePost", "deletePost"}
CommentOps == {"updateComment", "deleteComment"}

\* the step is the write of a request of the resource's author
WriteByAuthor(ops, id, author) ==
    \E i \in EditIds :
        /\ ereq[i].pc = "write" /\ ereq'[i].pc = "done"
        /\ ereq[i].op \in ops /\ ereq[i].id = id /\ ereq[i].actor = author

\* C11: every update or delete requested by an actor who is not the author
\* of the (stored) resource is answered 403.
C11_NonAuthorAnswered403 ==
    \A i \in EditIds :
        (ereq[i].pc = "done" /\ NonAuthor(ereq[i])) => ereq[i].status = 403

\* C11 as amended: a request of a non-author never gets to its write; it is
\* answered 400 when it is an updateComment whose body fails validation,
\* else 403 when the resource is there at the lookup (404 when it is gone);
\* and every change or removal of a post or comment is the write of a
\* request of its author, the author itself never changing.
C11_OwnershipGuard ==
    /\ [](\A i \in EditIds :
            NonAuthor(ereq[i]) =>
               /\ ereq[i].pc /= "write"
               /\ ereq[i].pc = "done" =>
                     ereq[i].status =
                        IF ereq[i].op = "updateComment"
                              /\ UpdateCommentValidate(ereq[i].body) /= ""
                        THEN 400
                        ELSE IF ereq[i].loaded THEN 403 ELSE 404)
    /\ [][/\ \A p \in PostIds :
               /\ posts'[p].author = posts[p].author
               /\ (posts'[p].title /= posts[p].title
                      \/ posts'[p].exists /= posts[p].exists)
                  => WriteByAuthor(PostOps, p, posts[p].author)
          /\ \A c \in CommentIds :
               /\ comments'[c].author = comments[c].author
               /\ comments'[c] /= comments[c]
                  => WriteByAuthor(CommentOps, c, comments[c].author)]_vars

\* u2 was refused the post of u1 (403), which u1 then updated
C11_Witness ==
    \E i, j \in EditIds :
        /\ ereq[i].pc = "done" /\ ereq[i].op = "deletePost" /\ ereq[i].id = "p1"
        /\ ereq[i].actor = "u2" /\ ereq[i].status = 403
        /\ ereq[j].pc = "done" /\ ereq[j].op = "updatePost" /\ ereq[j].id = "p1"
        /\ ereq[j].actor = "u1" /\ ereq[j].status = 200
        /\ posts["p1"].exists /\ posts["p1"].title = "t1"

(***************************************************************************)
(* Claims about tokens and the auth middleware.                            *)
(***************************************************************************)
HandlerStep(i) == areq[i].pc = "handler" /\ areq'[i].pc = "done"

C13_TokenRoundTrip ==
    /\ \A w \in wallet :
          LET v == JwtVerify(w.token, JwtSecret, now)
          IN /\ w.token.iat = w.at \div 1000
             /\ w.token.exp = w.token.iat + ExpiresIn
             /\ now < w.token.exp * 1000 => v.ok
             /\ v.ok => v.userId = w.owner
    /\ \A i \in ProtectedIds :
          areq[i].user /= ""
          => \E w \in wallet : areq[i].bearer = w.token /\ areq[i].user = w.owner

\* a token is accepted, as its account, in the last half second before it expires
C13_Witness ==
    \E i \in ProtectedIds, w \in wallet :
        /\ areq[i].pc = "done" /\ areq[i].route = "getMe" /\ areq[i].status = 200
        /\ areq[i].bearer = w.token /\ areq[i].user = w.owner
        /\ areq[i].at = w.token.exp * 1000 - HalfSecond

PastExpiry(r) == IsJwt(r.bearer) /\ r.at \div 1000 >= r.bearer.exp

ValidSignature(token) ==
    token.sig = Hmac(JwtSecret, token.userId, token.iat, token.exp)

\* C14: verification of a token whose expiry is at or before the clock
\* fails as Expired, whether or not its signature is valid.
C14_ExpiredWhateverSignature ==
    \A i \in ProtectedIds :
        (areq[i].pc /= "idle" /\ PastExpiry(areq[i])) => areq[i].category = "Expired"

\* C14 as amended: verification of a token whose expiry is at or before
\* the clock fails: as Expired when its signature is valid, as
\* SignatureMismatch when it is not.
C14_PastExpiryFails ==
    \A i \in ProtectedIds :
        (areq[i].pc /= "idle" /\ PastExpiry(areq[i]))
        => areq[i].category =
              IF ValidSignature(areq[i].bearer) THEN "Expired" ELSE "SignatureMismatch"

\* a token as issued is refused as Expired at the very second of its expiry
C14_Witness ==
    \E i \in ProtectedIds, w \in wallet :
        /\ areq[i].pc = "done" /\ areq[i].bearer = w.token
        /\ areq[i].route \in ProtectedRoutes
        /\ areq[i].at = w.token.exp * 1000
        /\ areq[i].category = "Expired" /\ areq[i].status = 401

(***************************************************************************)
(* Claims about registration.                                              *)
(***************************************************************************)
MinPasswordLength == 8

PasswordOf(u) == users[u].password[2]

\* C15: register answers 400, without a token, to every password shorter
\* than 8 characters, and no account holds such a password.
C15_ShortPasswordRejected ==
    /\ \A i \in RegisterIds :
          (regs[i].pc = "done" /\ Len(regs[i].password) < MinPasswordLength)
          => regs[i].response.status = 400 /\ regs[i].response.token = NoToken
    /\ \A u \in UserIds :
          users[u].exists => Len(PasswordOf(u)) >= MinPasswordLength

SameAddress(e, f) == CastEmail(e) = CastEmail(f)

FoundMissing(r) == r.pc = "done" /\ (r.postV = -1 \/ r.noUser)

\* C17: a toggle whose lookups find the post missing, or the account
\* missing, is answered 404, and on answering it changes no account's
\* bookmarks and no post's bookmarkedBy.
C17_MissingIs404 ==
    /\ [](\A i \in ToggleIds : FoundMissing(treq[i]) => treq[i].status = 404)
    /\ [][\A i \in ToggleIds :
            (~FoundMissing(treq[i]) /\ FoundMissing(treq'[i]))
                => (users' = users /\ posts' = posts)]_vars

\* lines 166-169: the isBookmarked field of the 200 response
ReturnedIsBookmarked(r) == ~r.isBookmarked

\* C18: the isBookmarked a successful toggle returns equals the membership
\* stored on both sides at the moment the request completes.
C18_ReturnsResultingState ==
    \A i \in ToggleIds :
        (treq[i].pc = "done" /\ treq[i].status = 200)
            => /\ ReturnedIsBookmarked(treq[i]) = treq[i].afterU
               /\ ReturnedIsBookmarked(treq[i]) = treq[i].afterP

DerivedBookmarks(u) ==
    SelectSeq(OrderedPosts, LAMBDA p : Includes(posts[p].bookmarkedBy, u))

SameMembers(a, b) ==
    \A p \in PostIds : Includes(a, p) <=> Includes(b, p)

Reconcile(us) ==
    [u \in UserIds |->
        IF SameMembers(us[u].bookmarks, DerivedBookmarks(u))
        THEN us[u]
        ELSE [us[u] EXCEPT !.bookmarks = DerivedBookmarks(u)]]

\* C20: once a toggleBookmark has completed and no other is under way,
\* running the reconciliation changes no account's bookmarks (it never
\* writes a post's bookmarkedBy).
C20_ReconcileAfterToggleIsNoOp ==
    ( /\ \E i \in ToggleIds : treq[i].pc = "done" /\ treq[i].status = 200
      /\ \A j \in ToggleIds : ~InFlight(treq[j]) )
        => Reconcile(users) = users

\* the successful getPost requests for post p
Viewed(p) == {i \in ViewIds : vreq[i].pc = "done" /\ vreq[i].id = p /\ vreq[i].status = 200}

\* C21: getPost with an id that is no well-formed identifier is answered
\* 400, a well-formed id of no post is answered 404, and neither answer
\* comes with a change of any post (no view counter is incremented).
C21_MalformedIs400 ==
    /\ [](\A i \in ViewIds :
            vreq[i].pc = "done" =>
                /\ vreq[i].id = MalformedId => vreq[i].status = 400
                /\ vreq[i].id = AbsentId => vreq[i].status = 404)
    /\ [][\A i \in ViewIds :
            (vreq[i].pc /= "done" /\ vreq'[i].pc = "done"
                /\ vreq'[i].id \in {MalformedId, AbsentId}) => posts' = posts]_vars

\* C30: once k getPost requests for an existing post have completed
\* successfully and none is under way, its views counter has grown by k.
C30_NoViewLost ==
    \A p \in PostIds :
        (posts[p].exists /\ \A i \in ViewIds : vreq[i].pc \in {"idle", "done"})
            => posts[p].views = Cardinality(Viewed(p))

\* the createPost requests that have been answered
Created == {i \in ViewIds : vreq[i].op = "createPost" /\ vreq[i].pc = "done"}

\* no step changes the author of a stored post, and a post that appears
\* has the account of the createPost request that stored it as its author
AuthorFixed ==
    \A p \in PostIds :
        /\ (posts[p].exists /\ posts'[p].exists) => posts'[p].author = posts[p].author
        /\ (~posts[p].exists /\ posts'[p].exists) =>
              \E i \in ViewIds : /\ vreq[i].op = "createPost" /\ vreq[i].id = p
                                 /\ vreq[i].pc = "save" /\ vreq'[i].pc = "done"
                                 /\ posts'[p].author = vreq[i].actor

\* the step that answers a createPost with 400 writes no post
RejectedStoresNothing ==
    \A i \in ViewIds :
        (vreq[i].pc /= "done" /\ vreq'[i].pc = "done" /\ vreq'[i].op = "createPost"
            /\ vreq'[i].status = 400) => posts' = posts

\* C29 as stated: createPost stores the post under its creator whatever
\* author the body names (the value is ignored, the request succeeds), and
\* no later request changes the author of a stored post.
C29_AuthorInBodyIgnored ==
    /\ [](\A i \in Created :
            vreq[i].body.title /= "" =>
                (vreq[i].status = 201 /\ posts[vreq[i].id].author = vreq[i].actor))
    /\ [][AuthorFixed]_vars

\* C29, amended: a createPost whose body names an author is answered 400
\* and stores nothing; any other createPost with a title stores the post
\* under its creator; no later request changes the author of a stored post.
C29_AuthorFixedAtCreation ==
    /\ [](\A i \in Created :
            /\ vreq[i].body.extra => vreq[i].status = 400
            /\ (~vreq[i].body.extra /\ vreq[i].body.title /= "") =>
                  (vreq[i].status = 201 /\ posts[vreq[i].id].author = vreq[i].actor))
    /\ [][AuthorFixed /\ RejectedStoresNothing]_vars

C29_Witness ==
    /\ \E i \in Created : vreq[i].status = 201 /\ vreq[i].actor = "u2"
    /\ \E i \in Created : vreq[i].status = 400 /\ vreq[i].body.extra
    /\ ereq[1].pc = "done" /\ ereq[1].status = 200 /\ ereq[1].actor = "u2"
    /\ treq[1].pc = "done" /\ treq[1].status = 200 /\ treq[1].post = "p2"

\* C25: a request never has its account-side write (user.bookmarks)
\* committed while its item-side write (post.bookmarkedBy) is not.
C25_ItemSideFirst ==
    \A i \in ToggleIds : treq[i].wroteU => treq[i].wroteP

\* C26: a toggleBookmark answered with an error (404 or 500) has written
\* neither the account's bookmarks nor the post's bookmarkedBy.
C26_ErrorWritesNothing ==
    \A i \in ToggleIds :
        (treq[i].pc = "done" /\ treq[i].status \in {404, 500})
            => (~treq[i].wroteU /\ ~treq[i].wroteP)

\* how often x occurs in arr
Occurrences(arr, x) == Cardinality({k \in 1..Len(arr) : arr[k] = x})

\* C27: no post id occurs twice in an account's bookmarks and no account
\* id occurs twice in a post's bookmarkedBy.
C27_ArraysAreSets ==
    \A u \in UserIds, p \in PostIds :
        /\ Occurrences(users[u].bookmarks, p) <= 1
        /\ Occurrences(posts[p].bookmarkedBy, u) <= 1

\* C28: every id in an account's bookmarks is the id of a stored post, and
\* a toggle by the account for an id in its bookmarks, run without another
\* request for the pair, removes it.
C28_BookmarksReferToPosts ==
    /\ \A u \in UserIds, p \in PostIds : MemberU(u, p) => posts[p].exists
    /\ \A i \in ToggleIds :
          (treq[i].pc = "done" /\ treq[i].beforeU /\ ~treq[i].overlap /\ ~treq[i].shared
              /\ ~treq[i].noUser)
              => (treq[i].status = 200 /\ ~treq[i].afterU)

\* the plaintext passwords the requests supply
Plaintexts == {"longenough1", "newpass99", "short", "wrongpass"}

\* the stored value is a bcrypt hash
IsHash(stored) == stored[1] = "bcrypt"

\* the plaintext of the request that writes account u's password in this step
Supplied(u, pw) ==
    \/ \E i \in RegisterIds : /\ regs[i].pc = "create" /\ regs'[i].pc = "done"
                                /\ ~users[u].exists /\ regs[i].password = pw
    \/ \E i \in ProfileIds : /\ preq[i].pc = "save" /\ preq'[i].pc = "done"
                               /\ preq[i].user = u /\ preq[i].body.password = pw

PasswordWritten(u) ==
    /\ users'[u].exists
    /\ ~users[u].exists \/ users'[u].password /= users[u].password

C23_NoPasswordInResponse ==
    /\ \A i \in RegisterIds : regs[i].pc = "done" => "password" \notin DOMAIN regs[i].sent
    /\ \A i \in LoginIds : logins[i].pc = "done" => "password" \notin DOMAIN logins[i].sent
    /\ \A i \in ProfileIds : preq[i].pc = "done" => "password" \notin DOMAIN preq[i].response

C23_Witness ==
    /\ regs[1].pc = "done" /\ regs[1].response.status = 201
    /\ logins[1].pc = "done" /\ logins[1].response.status = 200
    /\ preq[1].pc = "done" /\ preq[1].op = "getMe" /\ "email" \in DOMAIN preq[1].response
    /\ preq[2].pc = "done" /\ preq[2].op = "updateProfile" /\ preq[2].status = 200

\* the step of request i that stores the profile of its account
StoresProfile(i) ==
    /\ preq[i].op = "updateProfile" /\ preq[i].pc = "save"
    /\ preq'[i].pc = "done" /\ preq'[i].status = 200

\* C24: a step of an updateProfile request of account A changes at most
\* A's nickname and password, and only when it is answered 200; a request
\* answered 404 or 400 changes no account.
C24_UpdateProfileFrame ==
    [][\A i \in ProfileIds :
         preq'[i] /= preq[i] =>
            \/ users' = users
            \/ /\ StoresProfile(i)
               /\ \A u \in UserIds \ {preq[i].user} : users'[u] = users[u]
               /\ users'[preq[i].user] =
                     [users[preq[i].user] EXCEPT !.nickname = users'[preq[i].user].nickname,
                                                 !.password = users'[preq[i].user].password]]_vars

C24_Witness ==
    /\ preq[1].pc = "done" /\ preq[1].op = "updateProfile" /\ preq[1].status = 200
    /\ preq[1].user = "u1" /\ users["u1"].nickname = "n1"
    /\ ComparePassword("newpass99", users["u1"].password)
    /\ preq[2].pc = "done" /\ preq[2].op = "updateProfile" /\ preq[2].status = 404

====
